---- MODULE Spec2Model ----
(***************************************************************************)
(* Pickfair / Betfair Dutching: the dutching page of the client            *)
(* (client/src/pages/dutching.tsx), the place-bets endpoints of the three  *)
(* servers (server/routes.ts, routes-local, the Electron production        *)
(* server) and BetfairClient.placeOrders (server/betfair.ts).              *)
(*                                                                         *)
(* JavaScript numbers are modelled as exact rationals in lowest terms,     *)
(* plus NaN, JSON null and undefined; the rounding error of the doubles    *)
(* (about 1e-13 at these magnitudes) is far below the cent the properties  *)
(* are stated to.                                                          *)
(***************************************************************************)
EXTENDS Integers, Sequences, FiniteSets, TLC

VARIABLES
    selections,       \* dutching.tsx useState<Selection[]>: runners of the market, with the selected flag
    betType,          \* dutching.tsx useState "back" | "lay"
    calculationMode,  \* dutching.tsx useState "stake" | "liability"
    totalAmount,      \* dutching.tsx useState<string>: the amount field
    offset,           \* dutching.tsx useState<string>: the price offset field
    deployment,       \* which server answers: "cloud", "local" or "electron"
    settings,         \* the betfair_settings row of the user
    otherSettings,    \* the betfair_settings row of another user
    now,              \* wall clock, in minutes
    loggedInAt,       \* when the login that made the stored session succeeded; Null without one
    pending,          \* the connect request that awaits the exchange's login answer; Null without one
    bets,             \* the bets table (history), oldest first
    exchange,         \* the placeOrders calls the exchange has received, oldest first
    response          \* the response to the latest place-bets request

vars == <<selections, betType, calculationMode, totalAmount, offset,
          deployment, settings, otherSettings, now, loggedInAt, pending, bets, exchange,
          response>>

pageVars == <<selections, betType, calculationMode, totalAmount, offset>>
serverVars == <<deployment, settings, otherSettings, now, loggedInAt, pending, bets, exchange,
                response>>

----------------------------------------------------------------------------
(* JavaScript numbers *)

Abs(x) == IF x < 0 THEN -x ELSE x

RECURSIVE Gcd(_, _)
Gcd(a, b) == IF b = 0 THEN a ELSE Gcd(b, a % b)

\* Operands are bound to their values once (v \in {e}) before they are used, so that an
\* expression is not evaluated again at each of its uses.

\* the rational n/d, d # 0, in lowest terms with a positive denominator
Num(n, d) ==
    LET reduced(p, q) ==
            LET g == Gcd(Abs(p), Abs(q))
                s == IF q < 0 THEN -1 ELSE 1
            IN [k |-> "num", n |-> s * (p \div g), d |-> s * (q \div g)]
    IN CHOOSE r \in {reduced(p, q) : p \in {n}, q \in {d}} : TRUE

Whole(n) == Num(n, 1)
\* a value given in hundredths (1.52 is Cents(152))
Cents(c) == Num(c, 100)

NaN == [k |-> "nan", n |-> 0, d |-> 1]
JsonNull == [k |-> "null", n |-> 0, d |-> 1]
Undefined == [k |-> "undef", n |-> 0, d |-> 1]

IsNum(x) == x.k = "num"

\* arithmetic on JS numbers: undefined converts to NaN, NaN propagates; null converts to 0
ToNumber(x) ==
    CHOOSE r \in {IF v.k = "null" THEN Whole(0) ELSE IF v.k = "undef" THEN NaN ELSE v :
                  v \in {x}} : TRUE

Add(a, b) ==
    LET sum(x, y) ==
            LET g == Gcd(x.d, y.d)
            IN IF IsNum(x) /\ IsNum(y)
               THEN Num(x.n * (y.d \div g) + y.n * (x.d \div g), (x.d \div g) * y.d)
               ELSE NaN
    IN CHOOSE r \in {sum(x, y) : x \in {ToNumber(a)}, y \in {ToNumber(b)}} : TRUE

Neg(a) ==
    CHOOSE r \in {IF IsNum(x) THEN Num(-x.n, x.d) ELSE NaN : x \in {ToNumber(a)}} : TRUE

Sub(a, b) == Add(a, Neg(b))

\* the factors are reduced crosswise first, so that only the result has to fit
Mul(a, b) ==
    LET product(x, y) ==
            LET g1 == Gcd(Abs(x.n), y.d)
                g2 == Gcd(Abs(y.n), x.d)
            IN IF IsNum(x) /\ IsNum(y)
               THEN Num((x.n \div g1) * (y.n \div g2), (x.d \div g2) * (y.d \div g1))
               ELSE NaN
    IN CHOOSE r \in {product(x, y) : x \in {ToNumber(a)}, y \in {ToNumber(b)}} : TRUE

\* the divisor is never 0 within the inputs of this model: every price plus offset is positive
Div(a, b) ==
    LET quotient(x, y) ==
            IF IsNum(x) /\ IsNum(y) /\ y.n # 0 THEN Mul(x, Num(y.d, y.n)) ELSE NaN
    IN CHOOSE r \in {quotient(x, y) : x \in {ToNumber(a)}, y \in {ToNumber(b)}} : TRUE

RECURSIVE FracLt(_, _, _, _)
\* a/b < c/d for b, d > 0, by integer parts and then the reciprocals of the remainders
FracLt(a, b, c, d) ==
    IF a \div b # c \div d THEN a \div b < c \div d
    ELSE IF c % d = 0 THEN FALSE
    ELSE IF a % b = 0 THEN TRUE
    ELSE FracLt(d, c % d, b, a % b)

\* comparisons are false as soon as one side is NaN
Lt(a, b) ==
    \E x \in {ToNumber(a)}, y \in {ToNumber(b)} :
        IsNum(x) /\ IsNum(y) /\ FracLt(x.n, x.d, y.n, y.d)

Le(a, b) ==
    \E x \in {ToNumber(a)}, y \in {ToNumber(b)} :
        IsNum(x) /\ IsNum(y) /\ ~FracLt(y.n, y.d, x.n, x.d)

\* Math.max(a, b): NaN if either is NaN
MathMax(a, b) ==
    LET larger(x, y) == IF IsNum(x) /\ IsNum(y) THEN (IF Lt(x, y) THEN y ELSE x) ELSE NaN
    IN CHOOSE r \in {larger(x, y) : x \in {ToNumber(a)}, y \in {ToNumber(b)}} : TRUE

\* Math.round(x): the integer nearest to x, halves towards +infinity
MathRound(a) ==
    CHOOSE r \in {IF IsNum(x) THEN Whole((2 * x.n + x.d) \div (2 * x.d)) ELSE NaN :
                  x \in {ToNumber(a)}} : TRUE

\* JSON.stringify of a number field: NaN becomes null, undefined drops the field
ToJson(x) == CHOOSE r \in {IF v.k = "nan" THEN JsonNull ELSE v : v \in {x}} : TRUE

\* x || 0 on a number: NaN and 0 are falsy
OrZero(x) == CHOOSE r \in {IF IsNum(v) /\ v.n # 0 THEN v ELSE Whole(0) : v \in {x}} : TRUE

RECURSIVE SumOver(_, _, _)
\* seq.reduce((sum, s) => sum + F(s), 0)
SumOver(seq, F(_), i) ==
    IF i > Len(seq) THEN Whole(0) ELSE Add(F(seq[i]), SumOver(seq, F, i + 1))

RECURSIVE FilterSeq(_, _, _)
FilterSeq(seq, P(_), i) ==
    IF i > Len(seq) THEN <<>>
    ELSE IF P(seq[i]) THEN <<seq[i]>> \o FilterSeq(seq, P, i + 1)
    ELSE FilterSeq(seq, P, i + 1)

MapSeq(seq, F(_)) == [i \in 1..Len(seq) |-> F(seq[i])]

Range(seq) == {seq[i] : i \in 1..Len(seq)}

----------------------------------------------------------------------------
(* Inputs of the model *)

\* markets as getCorrectScoreMarket returns them: per runner the best back and lay
\* offers, each a price of the exchange
SmallMarket ==
    << [selectionId |-> 1, backPrice |-> Cents(150), layPrice |-> Cents(200)],
       [selectionId |-> 2, backPrice |-> Cents(800), layPrice |-> Cents(1000)] >>

LargeMarket ==
    << [selectionId |-> 1, backPrice |-> Cents(150), layPrice |-> Cents(200)],
       [selectionId |-> 2, backPrice |-> Cents(300), layPrice |-> Cents(400)],
       [selectionId |-> 3, backPrice |-> Cents(600), layPrice |-> Cents(800)] >>

Markets == {SmallMarket, LargeMarket}

\* what the user can type in the amount and offset fields
AmountStrings == {"", "10", "100", "10000"}
OffsetStrings == {"0", "-0.5", "0.5"}

\* parseFloat on the strings above
parseFloat(s) ==
    CASE s = "" -> NaN
      [] s = "0" -> Whole(0)
      [] s = "10" -> Whole(10)
      [] s = "100" -> Whole(100)
      [] s = "10000" -> Whole(10000)
      [] s = "-0.5" -> Cents(-50)
      [] s = "0.5" -> Cents(50)

----------------------------------------------------------------------------
(* The dutching page: client/src/pages/dutching.tsx *)

selectedSelections == FilterSeq(selections, LAMBDA s : s.selected, 1)

\* the price field the bet type reads
PriceOf(s) == IF betType = "back" THEN s.backPrice ELSE s.layPrice

bookPercentage ==
    IF Len(selectedSelections) = 0 THEN Whole(0)
    ELSE SumOver(selectedSelections, LAMBDA s : Div(Whole(100), PriceOf(s)), 1)

amount == OrZero(parseFloat(totalAmount))
offsetValue == OrZero(parseFloat(offset))

\* price of a selection after the offset
EffectivePrice(s) == Add(PriceOf(s), offsetValue)

\* variant of the stake in which the liability mode of a BACK bet sizes the stake by
\* the odds, amount / (price - 1), as a lay liability would be
StakeLiabilityByOdds(s) ==
    IF calculationMode = "stake" \/ betType = "lay"
    THEN Div(Mul(amount, Div(Whole(100), EffectivePrice(s))), bookPercentage)
    ELSE Div(amount, Sub(EffectivePrice(s), Whole(1)))

\* variant of the stake that remembers the placements already made: what is left of
\* the amount after the bets recorded so far
StakeAfterPlacements(s) ==
    Div(Mul(Sub(amount, Whole(Len(bets))), Div(Whole(100), EffectivePrice(s))), bookPercentage)

\* the local `stake` of the map callback: the three branches are the same expression
Stake(s) ==
    IF calculationMode = "stake"
    THEN Div(Mul(amount, Div(Whole(100), EffectivePrice(s))), bookPercentage)
    ELSE IF betType = "lay"
         THEN Div(Mul(amount, Div(Whole(100), EffectivePrice(s))), bookPercentage)
         ELSE Div(Mul(amount, Div(Whole(100), EffectivePrice(s))), bookPercentage)

\* the display-only fillPercentage is left out
CalculatedSelection(s) ==
    [ selectionId |-> s.selectionId,
      backPrice |-> s.backPrice,
      layPrice |-> s.layPrice,
      calculatedStake |-> MathMax(Whole(2), Stake(s)),
      effectivePrice |-> EffectivePrice(s),
      potentialReturn |-> IF betType = "back" THEN Mul(Stake(s), EffectivePrice(s)) ELSE amount,
      potentialLoss |-> IF betType = "back" THEN amount
                        ELSE Mul(Stake(s), Sub(EffectivePrice(s), Whole(1))) ]

calculatedSelections ==
    IF Len(selectedSelections) = 0 THEN <<>>
    ELSE MapSeq(selectedSelections, CalculatedSelection)

totalStake == SumOver(calculatedSelections, LAMBDA s : s.calculatedStake, 1)

toggleSelection(selectionId) ==
    /\ selections' = [i \in 1..Len(selections) |->
                         IF selections[i].selectionId = selectionId
                         THEN [selections[i] EXCEPT !.selected = ~@]
                         ELSE selections[i]]
    /\ UNCHANGED <<betType, calculationMode, totalAmount, offset, serverVars>>

clearSelections ==
    /\ Len(selectedSelections) > 0
    /\ selections' = [i \in 1..Len(selections) |-> [selections[i] EXCEPT !.selected = FALSE]]
    /\ UNCHANGED <<betType, calculationMode, totalAmount, offset, serverVars>>

setBetType(v) ==
    /\ betType' = v
    /\ UNCHANGED <<selections, calculationMode, totalAmount, offset, serverVars>>

setCalculationMode(v) ==
    /\ calculationMode' = v
    /\ UNCHANGED <<selections, betType, totalAmount, offset, serverVars>>

setTotalAmount(v) ==
    /\ totalAmount' = v
    /\ UNCHANGED <<selections, betType, calculationMode, offset, serverVars>>

setOffset(v) ==
    /\ offset' = v
    /\ UNCHANGED <<selections, betType, calculationMode, totalAmount, serverVars>>

----------------------------------------------------------------------------
(* Server state *)

Null == <<>>
Some(x) == <<x>>

NoSettings ==
    [ appKey |-> Null, certificate |-> Null, privateKey |-> Null,
      sessionToken |-> Null, sessionExpiry |-> Null ]

Deployments == {"cloud", "local", "electron"}


\* BetfairClient.loginWithCertificate: expiry.setHours(expiry.getHours() + 8)
SessionHours == 8

\* bounds of the model
MaxOrders == 1     \* placeOrders calls followed
MaxTime == 720     \* the clock stops here (minutes)
TickHours == 6     \* the clock advances in steps of this many hours

Truthy(opt) == opt # Null /\ opt # Some("")

(* storage: DatabaseStorage (cloud) and LocalStorage (local, electron) *)

updateBetfairCertificate(row, appKey, certificate, privateKey) ==
    [row EXCEPT !.appKey = Some(appKey), !.certificate = Some(certificate),
                !.privateKey = Some(privateKey)]

\* variant of the session update that writes the columns upsertBetfairSettings sets:
\* appKey next to the session, from a value the caller does not supply
updateSessionAsUpsert(row, sessionToken, sessionExpiry) ==
    [row EXCEPT !.appKey = Null, !.sessionToken = sessionToken, !.sessionExpiry = sessionExpiry]

updateBetfairSession(row, sessionToken, sessionExpiry) ==
    [row EXCEPT !.sessionToken = sessionToken, !.sessionExpiry = sessionExpiry]

createBet(bet) == Append(bets, bet)

\* the user of the requests (req.user.claims.sub, LOCAL_USER_ID) and the owner of the other row
UserId == "user"
OtherUserId == "other"

\* the two statements as they act on the table: WHERE user_id = userId
updateBetfairCertificateWhere(userId, appKey, certificate, privateKey) ==
    /\ settings' = IF UserId = userId
                   THEN updateBetfairCertificate(settings, appKey, certificate, privateKey)
                   ELSE settings
    /\ otherSettings' = IF OtherUserId = userId
                        THEN updateBetfairCertificate(otherSettings, appKey, certificate, privateKey)
                        ELSE otherSettings

updateBetfairSessionWhere(userId, sessionToken, sessionExpiry) ==
    /\ settings' = IF UserId = userId
                   THEN updateBetfairSession(settings, sessionToken, sessionExpiry)
                   ELSE settings
    /\ otherSettings' = IF OtherUserId = userId
                        THEN updateBetfairSession(otherSettings, sessionToken, sessionExpiry)
                        ELSE otherSettings

(* POST upload-certificate (cloud, local) and POST certificate (electron) *)
UploadCertificate(appKey, certificate, privateKey) ==
    /\ IF appKey # "" /\ certificate # "" /\ privateKey # ""
       THEN updateBetfairCertificateWhere(UserId, appKey, certificate, privateKey)
       ELSE UNCHANGED <<settings, otherSettings>>
    /\ UNCHANGED <<pageVars, deployment, now, loggedInAt, pending, bets, exchange, response>>

\* variant of the login whose error message repeats the request it sent
loginEchoingRequest(appKey, username, password, certificate, privateKey, login) ==
    [ postData |-> <<username, password>>,
      ok |-> login = "SUCCESS",
      sessionToken |-> IF login = "SUCCESS" THEN Some("token") ELSE Null,
      expiry |-> IF login = "SUCCESS" THEN Some(now + SessionHours * 60) ELSE Null,
      error |-> IF login = "SUCCESS" THEN "" ELSE password ]

\* BetfairClient.loginWithCertificate: the request sent to certlogin carries the
\* credentials; login is the loginStatus the exchange answers, "" a lost connection
loginWithCertificate(appKey, username, password, certificate, privateKey, login) ==
    [ postData |-> <<username, password>>,
      ok |-> login = "SUCCESS",
      sessionToken |-> IF login = "SUCCESS" THEN Some("token") ELSE Null,
      expiry |-> IF login = "SUCCESS" THEN Some(now + SessionHours * 60) ELSE Null,
      error |-> IF login = "SUCCESS" THEN ""
                ELSE IF login = "" THEN "Connection error" ELSE login ]

\* the response of POST /api/betfair/connect; loginCalls counts the login requests the
\* handler sent to the exchange on the way
ConnectResponse(username, password, login) ==
    IF username = ""
    THEN [status |-> 400, sessionExpiry |-> Null, loginCalls |-> 0,
          message |-> IF deployment = "electron"
                      THEN "String must contain at least 1 character(s)"
                      ELSE "Username obbligatorio"]
    ELSE IF password = ""
    THEN [status |-> 400, sessionExpiry |-> Null, loginCalls |-> 0,
          message |-> IF deployment = "electron"
                      THEN "String must contain at least 1 character(s)"
                      ELSE "Password obbligatoria"]
    ELSE IF ~(Truthy(settings.appKey) /\ Truthy(settings.certificate) /\ Truthy(settings.privateKey))
    THEN [status |-> 400, sessionExpiry |-> Null, loginCalls |-> 0,
          message |-> IF deployment = "electron" THEN "Certificato non configurato"
                      ELSE "Carica prima il certificato e l'App Key"]
    ELSE LET r == loginWithCertificate(settings.appKey[1], username, password,
                                       settings.certificate[1], settings.privateKey[1], login)
         IN IF r.ok THEN [status |-> 200, message |-> "", sessionExpiry |-> r.expiry,
                          loginCalls |-> 1]
            ELSE [status |-> 400, message |-> r.error, sessionExpiry |-> Null,
                  loginCalls |-> 1]

\* variant of the connect handler whose catch block drops the stored session
ConnectClearingOnFailure(username, password, login) ==
    /\ IF ConnectResponse(username, password, login).status = 200
       THEN /\ updateBetfairSessionWhere(UserId, Some("token"),
                                         ConnectResponse(username, password, login).sessionExpiry)
            /\ loggedInAt' = Some(now)
       ELSE /\ updateBetfairSessionWhere(UserId, Null, Null)
            /\ loggedInAt' = Null
    /\ UNCHANGED <<pageVars, deployment, now, pending, bets, exchange, response>>

(* POST /api/betfair/connect; login is the answer of the exchange's certlogin *)
Connect(username, password, login) ==
    /\ IF ConnectResponse(username, password, login).status = 200
       THEN /\ updateBetfairSessionWhere(UserId, Some("token"),
                                         ConnectResponse(username, password, login).sessionExpiry)
            /\ loggedInAt' = Some(now)
       ELSE UNCHANGED <<settings, otherSettings, loggedInAt>>
    /\ UNCHANGED <<pageVars, deployment, now, pending, bets, exchange, response>>

\* the same handler in two steps, as it runs when other requests are served while it
\* awaits the exchange. First step: the body passes connectSchema, the settings are read
\* and hold the credentials, and the login request is sent (the rejections before the
\* login are the atomic steps of Connect). overtaken records that a disconnect request
\* completed while this one was waiting.
ConnectBegin(username, password) ==
    /\ pending = Null
    /\ username # "" /\ password # ""
    /\ Truthy(settings.appKey) /\ Truthy(settings.certificate) /\ Truthy(settings.privateKey)
    /\ pending' = Some([ appKey |-> settings.appKey[1], username |-> username,
                         password |-> password, certificate |-> settings.certificate[1],
                         privateKey |-> settings.privateKey[1], overtaken |-> FALSE ])
    /\ UNCHANGED <<pageVars, deployment, settings, otherSettings, now, loggedInAt, bets, exchange,
                   response>>

\* second step: the exchange answers the login; on success the handler stores the session
ConnectFinish(login) ==
    /\ pending # Null
    /\ LET r == loginWithCertificate(pending[1].appKey, pending[1].username, pending[1].password,
                                     pending[1].certificate, pending[1].privateKey, login)
       IN IF r.ok
          THEN /\ updateBetfairSessionWhere(UserId, r.sessionToken, r.expiry)
               /\ loggedInAt' = Some(now)
          ELSE UNCHANGED <<settings, otherSettings, loggedInAt>>
    /\ pending' = Null
    /\ UNCHANGED <<pageVars, deployment, now, bets, exchange, response>>

\* !!(settings?.certificate && settings?.privateKey) and !!settings?.appKey
hasCertificate == Truthy(settings.certificate) /\ Truthy(settings.privateKey)
hasAppKey == Truthy(settings.appKey)

\* the response of GET /api/betfair/status: the same tests in the three servers; the
\* Electron server answers a connected session with its own message and with
\* hasCertificate and hasAppKey set to true
BetfairStatus ==
    IF ~Truthy(settings.sessionToken) \/ settings.sessionExpiry = Null
    THEN [connected |-> FALSE, message |-> "Nessuna sessione attiva",
          hasCertificate |-> hasCertificate, hasAppKey |-> hasAppKey]
    ELSE IF settings.sessionExpiry[1] < now
    THEN [connected |-> FALSE, message |-> "Sessione scaduta",
          hasCertificate |-> hasCertificate, hasAppKey |-> hasAppKey]
    ELSE IF deployment = "electron"
    THEN [connected |-> TRUE, message |-> "Connesso a Betfair",
          hasCertificate |-> TRUE, hasAppKey |-> TRUE]
    ELSE [connected |-> TRUE, message |-> "Connesso",
          hasCertificate |-> hasCertificate, hasAppKey |-> hasAppKey]

\* variant of the settings answer that returns the stored row as it is
BetfairSettingsUnmasked ==
    [ appKey |-> IF Truthy(settings.appKey) THEN settings.appKey ELSE Some(""),
      hasCertificate |-> hasCertificate,
      sessionToken |-> settings.sessionToken,
      sessionExpiry |-> settings.sessionExpiry ]

\* the response of GET /api/betfair/settings of the cloud and local servers (the Electron
\* server has no such route): appKey || "", and "***" or null for the session token
BetfairSettingsResponse ==
    [ appKey |-> IF Truthy(settings.appKey) THEN settings.appKey ELSE Some(""),
      hasCertificate |-> hasCertificate,
      sessionToken |-> IF Truthy(settings.sessionToken) THEN Some("***") ELSE Null,
      sessionExpiry |-> settings.sessionExpiry ]

(* POST /api/betfair/disconnect *)
Disconnect ==
    /\ updateBetfairSessionWhere(UserId, Null, Null)
    /\ loggedInAt' = Null
    /\ pending' = IF pending = Null THEN Null ELSE Some([pending[1] EXCEPT !.overtaken = TRUE])
    /\ UNCHANGED <<pageVars, deployment, now, bets, exchange, response>>

Tick ==
    /\ now + TickHours * 60 <= MaxTime
    /\ now' = now + TickHours * 60
    /\ UNCHANGED <<pageVars, deployment, settings, otherSettings, loggedInAt, pending, bets,
                   exchange, response>>

----------------------------------------------------------------------------
(* Placing bets *)

\* placeBetsSchema.safeParse: "" when the body is valid, else the message of the first issue
placeBetsSchema(body) ==
    LET badSel(sel) == ~IsNum(sel.price) \/ ~Lt(Whole(0), sel.price)
                       \/ ~IsNum(sel.stake) \/ Lt(sel.stake, Whole(2))
        selMsg(sel) == IF ~IsNum(sel.price) THEN "Expected number"
                       ELSE IF ~Lt(Whole(0), sel.price) THEN "Number must be greater than 0"
                       ELSE IF ~IsNum(sel.stake) THEN "Expected number"
                       ELSE "Stake minimo 2.00"
        bad == FilterSeq(body.selections, badSel, 1)
    IN IF body.marketId = "" THEN "Market ID required"
       ELSE IF "eventName" \notin DOMAIN body THEN "Required"
       ELSE IF body.eventName = "" THEN "Event name required"
       ELSE IF body.marketName = "" THEN "Market name required"
       ELSE IF body.betType \notin {"back", "lay"} THEN "Invalid enum value"
       ELSE IF Len(bad) > 0 THEN selMsg(bad[1])
       ELSE IF Len(body.selections) < 1 THEN "Almeno una selezione richiesta"
       ELSE IF ~IsNum(body.totalStake) THEN "Expected number"
       ELSE IF ~Lt(Whole(0), body.totalStake) THEN "Number must be greater than 0"
       ELSE IF body.totalLiability.k \notin {"num", "undef"} THEN "Expected number"
       ELSE ""

toUpperCase(s) == IF s = "back" THEN "BACK" ELSE IF s = "lay" THEN "LAY" ELSE s

\* inst.stake / inst.price: undefined when the object has no such property
Prop(inst, name) ==
    IF name \in DOMAIN inst THEN inst[name] ELSE Undefined

\* BetfairClient.placeOrders: the body of the placeOrders request as JSON.stringify writes it
placeOrders(marketId, instructions) ==
    [ marketId |-> marketId,
      instructions |-> MapSeq(instructions, LAMBDA inst :
          [ selectionId |-> inst.selectionId,
            side |-> inst.side,
            size |-> ToJson(MathMax(Whole(2),
                        Div(MathRound(Mul(Prop(inst, "stake"), Whole(100))), Whole(100)))),
            price |-> ToJson(Div(MathRound(Mul(Prop(inst, "price"), Whole(100))), Whole(100))) ]) ]

\* what createBet stores of the request
BetRecord(body, status, withLiability) ==
    [ marketId |-> body.marketId,
      betType |-> body.betType,
      selections |-> body.selections,
      totalStake |-> body.totalStake,
      totalLiability |-> IF withLiability THEN body.totalLiability ELSE Undefined,
      status |-> status ]

\* the exchange answered (an execution report with this status) or the request threw
Outcomes == {"SUCCESS", "FAILURE", "throw"}

\* the insert of createBet fails: the bets table declares event_name NOT NULL, and a
\* request body without eventName gives the insert no value for it
createBetThrows(body) == "eventName" \notin DOMAIN body

\* the effects of a placeOrders call and what follows it in the three handlers: the
\* catch block answers errStatus with the message of whatever threw
CallExchange(body, instructions, outcome, withLiability, errStatus) ==
    /\ exchange' = Append(exchange, placeOrders(body.marketId, instructions))
    /\ IF outcome = "throw"
       THEN /\ UNCHANGED bets
            /\ response' = [status |-> errStatus, message |-> "Errore API"]
       ELSE IF createBetThrows(body)
       THEN /\ UNCHANGED bets
            /\ response' = [status |-> errStatus, message |-> "NOT NULL constraint failed"]
       ELSE /\ bets' = createBet(BetRecord(body,
                          IF outcome = "SUCCESS" THEN "placed" ELSE "failed", withLiability))
            /\ response' = [status |-> 200, message |-> outcome]

Reject(status, message) ==
    /\ response' = [status |-> status, message |-> message]
    /\ UNCHANGED <<bets, exchange>>

\* validation.data of placeBetsSchema.safeParse: a z.object keeps the keys of its shape
\* and strips the others (the constant selectionName is left out of the model)
validationData(body) ==
    [body EXCEPT !.selections = MapSeq(body.selections, LAMBDA sel :
        [selectionId |-> sel.selectionId, price |-> sel.price, stake |-> sel.stake])]

\* POST /api/bets/place of server/routes.ts and of routes-local: the same handler on
\* DatabaseStorage and on LocalStorage
PlaceBetsRoutes(body, outcome) ==
    IF placeBetsSchema(body) # ""
    THEN Reject(400, placeBetsSchema(body))
    ELSE IF ~Truthy(settings.sessionToken) \/ ~Truthy(settings.appKey)
    THEN Reject(400, "Non connesso a Betfair")
    ELSE CallExchange(validationData(body),
             MapSeq(body.selections, LAMBDA sel :
                 [ selectionId |-> sel.selectionId,
                   side |-> toUpperCase(body.betType),
                   price |-> sel.price,
                   stake |-> sel.stake ]),
             outcome, TRUE, 500)

\* getBetfairClient of the Electron production server: TRUE when it returns a client
getBetfairClient ==
    /\ Truthy(settings.sessionToken) /\ Truthy(settings.appKey)
    /\ ~(settings.sessionExpiry # Null /\ settings.sessionExpiry[1] < now)

\* POST /api/betfair/place-bets of the Electron production server
PlaceBetsElectron(body, outcome) ==
    IF ~getBetfairClient
    THEN Reject(400, "Non connesso a Betfair")
    ELSE CallExchange(body,
             MapSeq(body.selections, LAMBDA sel :
                 [ selectionId |-> sel.selectionId,
                   handicap |-> Whole(0),
                   side |-> toUpperCase(body.betType),
                   orderType |-> "LIMIT",
                   limitOrder |-> [size |-> sel.stake, price |-> sel.price,
                                   persistenceType |-> "LAPSE"] ]),
             outcome, FALSE, 400)

\* the place-bets endpoint of the deployed server
PlaceBetsEndpoint(body, outcome) ==
    IF deployment = "electron" THEN PlaceBetsElectron(body, outcome)
    ELSE PlaceBetsRoutes(body, outcome)

\* the payload of placeBetsMutation, as JSON
Payload ==
    [ marketId |-> "1.234",
      eventName |-> "Event",
      marketName |-> "Correct Score",
      betType |-> betType,
      selections |-> MapSeq(calculatedSelections, LAMBDA s :
          [ selectionId |-> s.selectionId,
            price |-> ToJson(s.effectivePrice),
            stake |-> ToJson(s.calculatedStake) ]),
      totalStake |-> ToJson(totalStake),
      totalLiability |-> IF calculationMode = "liability"
                         THEN ToJson(parseFloat(totalAmount)) ELSE Undefined ]

\* the "Piazza" button: placeBetsMutation posts the payload to /api/bets/place, a route
\* the cloud and local servers register and the Electron server does not (404);
\* onSuccess unselects every selection
placeBetsMutation(outcome) ==
    /\ Len(exchange) < MaxOrders
    /\ Len(calculatedSelections) > 0
    /\ IF deployment = "electron"
       THEN Reject(404, "Not Found")
       ELSE PlaceBetsRoutes(Payload, outcome)
    /\ selections' = IF response'.status = 200
                     THEN [i \in 1..Len(selections) |-> [selections[i] EXCEPT !.selected = FALSE]]
                     ELSE selections
    /\ UNCHANGED <<betType, calculationMode, totalAmount, offset, deployment, settings,
                   otherSettings, now, loggedInAt, pending>>

\* request bodies another HTTP client can post to the place-bets endpoint
ExtPrices == {Whole(1), Whole(2)}
ExtStakes == {Cents(150), Whole(2)}
MaxExtSelections == 1

ExtSelections ==
    {[selectionId |-> 1, price |-> p, stake |-> st] : p \in ExtPrices, st \in ExtStakes}

RECURSIVE SeqsUpTo(_, _)
SeqsUpTo(S, n) ==
    IF n = 0 THEN {<<>>}
    ELSE SeqsUpTo(S, n - 1) \cup {Append(q, x) : q \in {r \in SeqsUpTo(S, n - 1) : Len(r) = n - 1}, x \in S}

ExternalBodies ==
    { [ marketId |-> "1.234", eventName |-> "Event", marketName |-> "Correct Score",
        betType |-> "back", selections |-> sels,
        totalStake |-> IF Len(sels) = 0 THEN Whole(2)
                       ELSE SumOver(sels, LAMBDA x : x.stake, 1),
        totalLiability |-> Undefined ] : sels \in SeqsUpTo(ExtSelections, MaxExtSelections) }

ExternalPlaceBets(body, outcome) ==
    /\ Len(exchange) < MaxOrders
    /\ PlaceBetsEndpoint(body, outcome)
    /\ UNCHANGED <<pageVars, deployment, settings, otherSettings, now, loggedInAt, pending>>

\* the page as mounted (useState defaults, market loaded, nothing selected) and a fresh server
InitPage(market) ==
    /\ selections = [i \in 1..Len(market) |->
                        [ selectionId |-> market[i].selectionId,
                          backPrice |-> market[i].backPrice,
                          layPrice |-> market[i].layPrice,
                          selected |-> FALSE ]]
    /\ betType = "lay"
    /\ calculationMode = "liability"
    /\ totalAmount = "100"
    /\ offset = "0"

\* the row of the other user: credentials and a session of their own
OtherRow ==
    [ appKey |-> Some("appkey2"), certificate |-> Some("cert2"), privateKey |-> Some("key2"),
      sessionToken |-> Some("token2"), sessionExpiry |-> Some(SessionHours * 60) ]

InitServer ==
    /\ deployment \in Deployments
    /\ settings = NoSettings
    /\ otherSettings = OtherRow
    /\ now = 0
    /\ loggedInAt = Null
    /\ pending = Null
    /\ bets = <<>>
    /\ exchange = <<>>
    /\ response = [status |-> 0, message |-> ""]

InitCalc == \E market \in Markets : InitPage(market) /\ InitServer

\* the edits of the page are followed until the orders the model follows have been sent
PageOpen == Len(exchange) < MaxOrders

NextCalc ==
    \/ \E i \in 1..Len(selections) : toggleSelection(selections[i].selectionId)
    \/ clearSelections
    \/ \E v \in {"back", "lay"} : setBetType(v)
    \/ \E v \in {"stake", "liability"} : setCalculationMode(v)
    \/ \E v \in AmountStrings : setTotalAmount(v)
    \/ \E v \in OffsetStrings : setOffset(v)

\* the calculator alone: the user edits the page, nothing is sent
SpecCalc == InitCalc /\ [][NextCalc]_vars

Init == InitPage(SmallMarket) /\ InitServer

Next ==
    \/ PageOpen /\ NextCalc
    \/ \E o \in Outcomes : placeBetsMutation(o)
    \/ \E b \in ExternalBodies, o \in Outcomes : ExternalPlaceBets(b, o)
    \/ UploadCertificate("appkey", "cert", "key")
    \/ \E login \in {"SUCCESS", "FAIL"} : Connect("user", "password", login)
    \/ Disconnect
    \/ Tick

\* the page, the deployed server and the exchange
Spec == Init /\ [][Next]_vars

NextPlacing ==
    \/ \E i \in 1..Len(selections) : toggleSelection(selections[i].selectionId)
    \/ \E o \in Outcomes : placeBetsMutation(o)
    \/ \E b \in {x \in ExternalBodies : Len(x.selections) = 1 /\ placeBetsSchema(x) = ""},
          o \in Outcomes : ExternalPlaceBets(b, o)
    \/ UploadCertificate("appkey", "cert", "key")
    \/ \E login \in {"SUCCESS", "FAIL"} : Connect("user", "password", login)
    \/ Disconnect

\* the user picks selections and places them, with the amount, offset, bet type and
\* mode of the mounted page, while the server takes requests: the page's and another
\* client's single-selection orders that pass validation
SpecPlacing == Init /\ [][NextPlacing]_vars

\* request bodies posted straight to the server: up to MaxPosted selections, with a
\* totalStake that is the sum of their stakes or is not
MaxPosted == 2
PostedSelections ==
    {[selectionId |-> i, price |-> Whole(2), stake |-> Whole(2)] : i \in {1, 2}}

PostedBodies ==
    UNION { { [ marketId |-> "1.234", eventName |-> "Event", marketName |-> "Correct Score",
                betType |-> "back", selections |-> sels, totalStake |-> total,
                totalLiability |-> Undefined ] :
              total \in {SumOver(sels, LAMBDA x : x.stake, 1), Whole(1)} } :
            sels \in SeqsUpTo(PostedSelections, MaxPosted) }

\* what can be typed in the forms of the settings page
Passwords == {"", "password"}
LoginStatuses == {"SUCCESS", "INVALID_USERNAME_OR_PASSWORD", ""}

NextServer ==
    \/ \E b \in PostedBodies, o \in Outcomes : ExternalPlaceBets(b, o)
    \/ \E key \in {"", "key"} : UploadCertificate("appkey", "cert", key)
    \/ \E password \in Passwords, login \in LoginStatuses : Connect("user", password, login)
    \/ Disconnect
    \/ Tick

\* the deployed server alone, driven by HTTP requests; the page stays as mounted
SpecServer == Init /\ [][NextServer]_vars

\* request bodies with one selection: a valid one, one whose stake is below the
\* minimum, and one that has no eventName
HistoryBodies ==
    LET body(stake) ==
            [ marketId |-> "1.234", eventName |-> "Event", marketName |-> "Correct Score",
              betType |-> "back",
              selections |-> <<[selectionId |-> 1, price |-> Whole(2), stake |-> stake]>>,
              totalStake |-> stake, totalLiability |-> Undefined ]
    IN { body(Whole(2)), body(Whole(1)),
         [ marketId |-> "1.234", marketName |-> "Correct Score", betType |-> "back",
           selections |-> <<[selectionId |-> 1, price |-> Whole(2), stake |-> Whole(2)]>>,
           totalStake |-> Whole(2), totalLiability |-> Undefined ] }

NextHistory ==
    \/ \E b \in HistoryBodies, o \in Outcomes : ExternalPlaceBets(b, o)
    \/ \E key \in {"", "key"} : UploadCertificate("appkey", "cert", key)
    \/ \E password \in Passwords, login \in LoginStatuses : Connect("user", password, login)
    \/ Disconnect
    \/ Tick

\* the deployed server taking the requests of the settings page and place-bets requests
\* that do and do not pass validation
SpecHistory == Init /\ [][NextHistory]_vars

NextSessions ==
    \/ \E key \in {"", "key"} : UploadCertificate("appkey", "cert", key)
    \/ ConnectBegin("user", "password")
    \/ \E login \in LoginStatuses : ConnectFinish(login)
    \/ Disconnect
    \/ \E b \in HistoryBodies, o \in Outcomes : ExternalPlaceBets(b, o)
    \/ Tick

\* the deployed server when requests are served while a connect request awaits the exchange
SpecSessions == Init /\ [][NextSessions]_vars

\* request bodies whose selections name a side each, as the documented request shape
\* does ({id, name, backPrice, layPrice, side}), one backed and one laid
MixedBodies ==
    { [ marketId |-> "1.234", eventName |-> "Event", marketName |-> "Correct Score",
        betType |-> bt,
        selections |-> << [selectionId |-> 1, side |-> "BACK", price |-> Whole(2), stake |-> Whole(4)],
                          [selectionId |-> 2, side |-> "LAY", price |-> p, stake |-> Whole(2)] >>,
        totalStake |-> Whole(6),
        totalLiability |-> Undefined ] : bt \in {"back", "lay"}, p \in {Whole(2), Whole(3)} }

NextMixed ==
    \/ \E b \in MixedBodies, o \in Outcomes : ExternalPlaceBets(b, o)
    \/ \E key \in {"", "key"} : UploadCertificate("appkey", "cert", key)
    \/ \E login \in LoginStatuses : Connect("user", "password", login)
    \/ Disconnect
    \/ Tick

\* the deployed server taking requests that mix backed and laid selections
SpecMixed == Init /\ [][NextMixed]_vars

----------------------------------------------------------------------------
(* Properties *)

\* the documented limits: "Stake minimo: 2.00 EUR", "Vincita massima: 10.000 EUR (stake incluso)"
MinStake == 2
MaxPayout == 10000

AbsNum(x) == IF Lt(x, Whole(0)) THEN Neg(x) ELSE x

\* two amounts of money less than a cent apart
WithinCent(a, b) == Lt(AbsNum(Sub(a, b)), Cents(1))

Picked == 1..Len(calculatedSelections)

\* the total amount is a positive finite number
AmountValid == IsNum(parseFloat(totalAmount)) /\ Lt(Whole(0), parseFloat(totalAmount))

\* the placement of the page's allocation sent no order and recorded no bet
PlacementRefused ==
    (\E o \in Outcomes : placeBetsMutation(o)) => (exchange' = exchange /\ bets' = bets)

\* every instruction the exchange has received
SentInstructions ==
    UNION {Range(exchange[c].instructions) : c \in 1..Len(exchange)}

\* every selection of a recorded bet
RecordedSelections ==
    UNION {Range(bets[b].selections) : b \in 1..Len(bets)}

(* C1 *)
\* net profit if selection i of an all-BACK allocation wins, on the stakes output
BackProfitIfWins(i) ==
    Sub(Mul(calculatedSelections[i].calculatedStake, calculatedSelections[i].effectivePrice),
        totalStake)

\* C1: uniform BACK profit. For an all-BACK calculation with a valid total amount, the
\* net profit if selection i wins (calculatedStake_i x effectivePrice_i minus the sum of
\* the calculated stakes) differs by less than 0.01 between any two selected outcomes.
C1_UniformBackProfit ==
    (betType = "back" /\ AmountValid) =>
        \A i \in Picked, j \in Picked : WithinCent(BackProfitIfWins(i), BackProfitIfWins(j))

(* C5 *)
\* W: the sum of the weights 1 / effectivePrice_i
SumOfWeights ==
    SumOver(calculatedSelections, LAMBDA s : Div(Whole(1), s.effectivePrice), 1)

\* C5: in stake mode an all-BACK calculation with total amount S gives each selection
\* the stake S * w_i / W, with w_i = 1 / effectivePrice_i and W the sum of the w_i, so
\* that the stakes output sum to S, whatever the selections, the amount and the offset.
C5_StakesSumToAmount ==
    (betType = "back" /\ calculationMode = "stake" /\ AmountValid /\ Picked # {}) =>
        /\ \A i \in Picked :
              WithinCent(calculatedSelections[i].calculatedStake,
                         Div(Mul(amount, Div(Whole(1), calculatedSelections[i].effectivePrice)),
                             SumOfWeights))
        /\ WithinCent(totalStake, amount)

(* C6 *)
\* the result of an all-LAY allocation if selection i wins: the stakes of the other
\* selections are won, the liability of i is lost
LayProfitIfWins(i) ==
    Sub(Sub(totalStake, calculatedSelections[i].calculatedStake),
        Mul(calculatedSelections[i].calculatedStake,
            Sub(calculatedSelections[i].effectivePrice, Whole(1))))

\* C6: worst-case LAY guarantee. The profit an all-LAY calculation reports
\* (potentialReturn) equals the minimum over the selected outcomes of LayProfitIfWins,
\* and is never above that minimum.
C6_LayWorstCaseReported ==
    (betType = "lay" /\ AmountValid) =>
        \A k \in Picked :
            /\ \A i \in Picked : Le(calculatedSelections[k].potentialReturn, 
                                    Add(LayProfitIfWins(i), Cents(1)))
            /\ \E i \in Picked : WithinCent(calculatedSelections[k].potentialReturn,
                                            LayProfitIfWins(i))

(* C7 *)
LayLiability(i) ==
    Mul(calculatedSelections[i].calculatedStake,
        Sub(calculatedSelections[i].effectivePrice, Whole(1)))

TotalLayLiability ==
    SumOver(calculatedSelections,
            LAMBDA s : Mul(s.calculatedStake, Sub(s.effectivePrice, Whole(1))), 1)

\* C7: an all-LAY calculation in liability mode makes the stakes proportional to
\* v_i = 1 / (effectivePrice_i - 1), that is stake_i * (effectivePrice_i - 1) is the
\* same for every selection, and the total liability equals the total amount entered.
C7_LayLiabilityMatchesAmount ==
    (betType = "lay" /\ calculationMode = "liability" /\ AmountValid /\ Picked # {}) =>
        /\ \A i \in Picked, j \in Picked : WithinCent(LayLiability(i), LayLiability(j))
        /\ WithinCent(TotalLayLiability, amount)

(* C8 *)
\* the tick ladder of the exchange, in hundredths: [lo, hi) in steps of inc
TickLadder ==
    { [lo |-> 101, hi |-> 200, inc |-> 1],      [lo |-> 200, hi |-> 300, inc |-> 2],
      [lo |-> 300, hi |-> 400, inc |-> 5],      [lo |-> 400, hi |-> 600, inc |-> 10],
      [lo |-> 600, hi |-> 1000, inc |-> 20],    [lo |-> 1000, hi |-> 2000, inc |-> 50],
      [lo |-> 2000, hi |-> 3000, inc |-> 100],  [lo |-> 3000, hi |-> 5000, inc |-> 200],
      [lo |-> 5000, hi |-> 10000, inc |-> 500], [lo |-> 10000, hi |-> 100001, inc |-> 1000] }

OnLadder(p) ==
    /\ IsNum(p)
    /\ 100 % p.d = 0
    /\ LET c == p.n * (100 \div p.d)
       IN \E r \in TickLadder : c >= r.lo /\ c < r.hi /\ (c - r.lo) % r.inc = 0

\* C8: every effectivePrice the calculator produces and every price of an order
\* instruction sent to the exchange lies on the tick ladder.
C8_PricesOnTickLadder ==
    /\ \A i \in Picked : OnLadder(calculatedSelections[i].effectivePrice)
    /\ \A inst \in SentInstructions : OnLadder(inst.price)

(* C2 *)
\* the allocation gives a selected outcome a stake below the minimum
BelowMinimumStake ==
    \E i \in 1..Len(selectedSelections) : Lt(Stake(selectedSelections[i]), Whole(MinStake))

\* C2: a minimum stake breach is rejected. While the allocation gives some selected
\* outcome a stake below the minimum, no allocation is produced, and placing sends no
\* order to the exchange and records no bet.
C2_MinimumStakeBreachRejected ==
    [][BelowMinimumStake => (calculatedSelections = <<>> /\ PlacementRefused)]_vars

(* C3 *)
\* C3: every order instruction a place-bets endpoint sends to the exchange carries a
\* numeric size of at least the minimum stake.
C3_SentSizeAtLeastMinimum ==
    \A inst \in SentInstructions : IsNum(inst.size) /\ Le(Whole(MinStake), inst.size)

(* C4 *)
\* stake plus profit paid out if this BACK selection wins: stake x price
BackPayout(stake, price) == Mul(stake, price)

\* C4: the maximum payout is validated. No BACK allocation is produced, no BACK order
\* reaches the exchange and no BACK bet is recorded whose payout (stake plus profit of
\* a winning selection) exceeds the maximum payout.
C4_MaxPayoutValidated ==
    /\ betType = "back" =>
         \A i \in Picked : Le(BackPayout(calculatedSelections[i].calculatedStake,
                                         calculatedSelections[i].effectivePrice),
                              Whole(MaxPayout))
    /\ \A inst \in SentInstructions :
         inst.side = "BACK" => ~Lt(Whole(MaxPayout), BackPayout(inst.size, inst.price))
    /\ \A b \in 1..Len(bets) : bets[b].betType = "back" =>
         \A sel \in Range(bets[b].selections) :
             ~Lt(Whole(MaxPayout), BackPayout(sel.stake, sel.price))

(* C9 *)
\* a price an order can be made at: finite and above 1.0
PriceValid(p) == IsNum(p) /\ Lt(Whole(1), p)

\* C9: a selection whose chosen-side price is not above 1.0 or not finite, before or
\* after the offset, gets no stake, and no order and no bet with such a price is
\* accepted.
C9_InvalidPriceRejected ==
    /\ (\E i \in 1..Len(selectedSelections) :
           ~PriceValid(PriceOf(selectedSelections[i]))
           \/ ~PriceValid(EffectivePrice(selectedSelections[i])))
       => calculatedSelections = <<>>
    /\ \A inst \in SentInstructions : PriceValid(inst.price)
    /\ \A sel \in RecordedSelections : PriceValid(sel.price)

(* C11 *)
\* a list of selections that is not empty and names no selection twice
DistinctSelections(sels) ==
    /\ Len(sels) > 0
    /\ \A i \in 1..Len(sels), j \in 1..Len(sels) :
           i # j => sels[i].selectionId # sels[j].selectionId

\* C11: a request with no selections, or with two selections of the same selection id,
\* is rejected: no placeOrders call is sent for it and no bet is recorded for it.
C11_InvalidSelectionsRejected ==
    /\ \A c \in 1..Len(exchange) : DistinctSelections(exchange[c].instructions)
    /\ \A b \in 1..Len(bets) : DistinctSelections(bets[b].selections)

(* C12 *)
\* C12: for every bet recorded by a place-bets request, the recorded totalStake equals
\* the sum of the stakes of the selections recorded with it, within 0.01.
C12_TotalStakeIsSumOfStakes ==
    \A b \in 1..Len(bets) :
        WithinCent(bets[b].totalStake, SumOver(bets[b].selections, LAMBDA s : s.stake, 1))

(* C13 *)
\* C13: the book percentage shown and used as the normaliser of the stake formula is the
\* sum over the selected outcomes of 1 / effectivePrice_i (as a percentage: 100 /
\* effectivePrice_i), effectivePrice_i being the post-offset price the stake is computed at.
C13_BookPercentageOfEffectivePrices ==
    bookPercentage =
        SumOver(calculatedSelections, LAMBDA s : Div(Whole(100), s.effectivePrice), 1)

(* C14 *)
\* C14: single-selection boundary. With exactly one BACK selection in stake mode and a
\* total amount A at or above the minimum stake, the calculated stake equals A, for
\* every price and every price offset.
C14_SingleSelectionStakeIsAmount ==
    (betType = "back" /\ calculationMode = "stake" /\ Len(calculatedSelections) = 1
       /\ AmountValid /\ Le(Whole(MinStake), amount)) =>
        WithinCent(calculatedSelections[1].calculatedStake, amount)

(* C15 *)
\* the user changed nothing but the calculation mode of an all-BACK calculation
OnlyModeChangedOnBack ==
    /\ betType = "back" /\ betType' = "back"
    /\ calculationMode' # calculationMode
    /\ selections' = selections /\ totalAmount' = totalAmount /\ offset' = offset

\* C15: for an all-BACK calculation liability mode is treated as stake mode: switching
\* between the two modes with the same selections, total amount and offset leaves
\* the stakes, the effective prices and the total stake as they were.
C15_BackLiabilityModeIsStakeMode ==
    [][OnlyModeChangedOnBack =>
          (calculatedSelections' = calculatedSelections /\ totalStake' = totalStake)]_vars

\* an all-BACK allocation over two outcomes, computed in liability mode
C15_Witness ==
    /\ betType = "back" /\ calculationMode = "liability"
    /\ Len(calculatedSelections) = 2 /\ AmountValid /\ offset # "0"

(* C16 *)
\* the inputs of the calculation are what they were
SameInputs ==
    /\ selections' = selections /\ betType' = betType
    /\ calculationMode' = calculationMode
    /\ totalAmount' = totalAmount /\ offset' = offset

WholeCents(x) == IsNum(x) /\ 100 % x.d = 0

\* C17: each stake is rounded to 2 decimal places once, so that for every selection of
\* a placed bet the stake recorded in the history is a multiple of 0.01 and is the size
\* the exchange was sent for that selection.
C17_RecordedStakeIsSentSize ==
    \A b \in 1..Len(bets) : \A sel \in Range(bets[b].selections) :
        /\ WholeCents(sel.stake)
        /\ \E inst \in SentInstructions :
               inst.selectionId = sel.selectionId /\ inst.size = sel.stake

(* C18 *)
\* the documented life of a session: "La sessione Betfair scade dopo 20 minuti"
DocumentedSessionMinutes == 20

\* C18: the session expires after 20 minutes. While a login's session is stored, the
\* status endpoint answers connected: true less than 20 minutes after that login, and
\* connected: false with "Sessione scaduta" from then on.
C18_SessionExpiresAfterTwentyMinutes ==
    loggedInAt # Null =>
        IF now < loggedInAt[1] + DocumentedSessionMinutes
        THEN BetfairStatus.connected
        ELSE ~BetfairStatus.connected /\ BetfairStatus.message = "Sessione scaduta"

(* C19 *)
\* the passwords a connect request can carry
TypedPasswords == Passwords \ {""}

\* the text columns of the settings row, and the text fields of a bet and of a response
SettingsTexts == {settings.appKey, settings.certificate, settings.privateKey,
                  settings.sessionToken}
BetTexts(bet) == {bet.marketId, bet.betType, bet.status}

\* C19: the password is not saved. After any sequence of connect requests, successful
\* or failed, no column of the settings row and no field of a recorded bet holds the
\* password, and no response carries it: it is handed to the login call only.
C19_PasswordNotSaved ==
    \A password \in TypedPasswords :
        /\ Some(password) \notin SettingsTexts
        /\ \A b \in 1..Len(bets) : password \notin BetTexts(bets[b])
        /\ response.message # password
        /\ \A login \in LoginStatuses :
              /\ ConnectResponse("user", password, login).message # password
              /\ password \in Range(loginWithCertificate("appkey", "user", password,
                                                         "cert", "key", login).postData)

\* a connect with the password succeeded and its session is stored
C19_Witness ==
    /\ loggedInAt # Null /\ Truthy(settings.sessionToken)
    /\ ConnectResponse("user", "password", "INVALID_USERNAME_OR_PASSWORD").status = 400

(* C20 *)
\* C20: the certificate and the private key are stored encrypted: after an upload the
\* certificate and private_key columns of the settings row do not hold the plaintext
\* values the request supplied ("cert" and "key").
C20_CertificateStoredEncrypted ==
    /\ settings.certificate # Some("cert")
    /\ settings.privateKey # Some("key")

(* C21 *)
\* net result of the orders of one placeOrders call if the selection of its w-th
\* instruction wins: a BACK order wins size x (price - 1) on the winner and loses its
\* size on the others, a LAY order loses size x (price - 1) on the winner and wins its
\* size on the others
ProfitIfWins(call, w) ==
    SumOver([j \in 1..Len(call.instructions) |-> j], LAMBDA j :
        LET inst == call.instructions[j]
            gain == IF j = w THEN Mul(inst.size, Sub(inst.price, Whole(1))) ELSE Neg(inst.size)
        IN IF inst.side = "BACK" THEN gain ELSE Neg(gain), 1)

\* the orders sent are the legs requested, and whichever selection wins the net result
\* is the same within a cent
MixedAllocationUniform(body, call) ==
    /\ Len(call.instructions) = Len(body.selections)
    /\ \A i \in 1..Len(call.instructions) : call.instructions[i].side = body.selections[i].side
    /\ \A i \in 1..Len(call.instructions), j \in 1..Len(call.instructions) :
           WithinCent(ProfitIfWins(call, i), ProfitIfWins(call, j))

\* C21: mixed uniform profit. Whenever the server sends the orders of a request that
\* combines BACK and LAY selections, the orders the exchange receives are those legs and
\* simulating each selection as the winning outcome gives net profits within 0.01 of
\* each other.
C21_MixedUniformProfit ==
    [][\A b \in MixedBodies, o \in Outcomes :
          (ExternalPlaceBets(b, o) /\ exchange' # exchange) =>
              MixedAllocationUniform(b, exchange'[Len(exchange')])]_vars

(* C22 *)
\* C22: no order for an expired session. Whenever the status endpoint would report
\* connected:false (token missing, expiry missing, or expiry earlier than now), a
\* place-bets request calls no placeOrders and records no bet, on the cloud routes, the
\* local routes and the Electron server alike.
C22_NoOrderWhenNotConnected ==
    [][~BetfairStatus.connected => (exchange' = exchange /\ bets' = bets)]_vars

(* C23 *)
\* C23: orders and history stay in step. A place-bets request that gets an execution
\* report from the exchange appends exactly one bet, with status 'placed' if the report
\* status is SUCCESS and 'failed' otherwise; a request rejected before the exchange call,
\* or whose exchange call throws, appends no bet.
C23_OrdersAndHistoryInStep ==
    [][\A b \in HistoryBodies, o \in Outcomes :
          ExternalPlaceBets(b, o) =>
              IF exchange' # exchange /\ o # "throw"
              THEN /\ Len(bets') = Len(bets) + 1
                   /\ SubSeq(bets', 1, Len(bets)) = bets
                   /\ bets'[Len(bets')].status = IF o = "SUCCESS" THEN "placed" ELSE "failed"
              ELSE bets' = bets]_vars

(* C24 *)
\* C24: disconnect is final under interleaving. Once a disconnect request has completed,
\* the stored session token and expiry stay null until a connect request issued after it
\* succeeds: a connect request that was awaiting the exchange login when the disconnect
\* ran stores no session when its login is answered.
C24_DisconnectIsFinal ==
    [][(pending # Null /\ pending[1].overtaken) =>
          (settings'.sessionToken = Null /\ settings'.sessionExpiry = Null)]_vars

(* C25 *)
\* the app key, the certificate and the private key are all stored
CredentialsStored ==
    Truthy(settings.appKey) /\ Truthy(settings.certificate) /\ Truthy(settings.privateKey)

\* C25: a connect request that fails for any reason (invalid body, credentials not all
\* stored, login rejected by the exchange, unparsable answer or connection error) is
\* answered with status 400 and leaves the stored session token and expiry exactly as
\* they were; with credentials missing no login call is made at all.
C25_FailedConnectKeepsSession ==
    [][\A password \in Passwords, login \in LoginStatuses :
          (Connect("user", password, login)
              /\ ConnectResponse("user", password, login).status # 200) =>
                /\ ConnectResponse("user", password, login).status = 400
                /\ settings'.sessionToken = settings.sessionToken
                /\ settings'.sessionExpiry = settings.sessionExpiry
                /\ (~CredentialsStored =>
                        ConnectResponse("user", password, login).loginCalls = 0)]_vars

\* a session stored some hours ago, with the credentials still stored, when a connect
\* request whose login the exchange rejects is answered 400
C25_Witness ==
    /\ Truthy(settings.sessionToken) /\ CredentialsStored
    /\ loggedInAt # Null /\ loggedInAt[1] < now
    /\ ConnectResponse("user", "password", "INVALID_USERNAME_OR_PASSWORD").status = 400
    /\ ConnectResponse("user", "", "SUCCESS").status = 400

(* C26 *)
\* C26: frame of the settings updates. Disconnect changes only sessionToken and
\* sessionExpiry: appKey, certificate and privateKey are unchanged, and the status
\* endpoint reports the same hasCertificate and hasAppKey before and after. Upload-
\* certificate changes only appKey, certificate and privateKey: sessionToken and
\* sessionExpiry are unchanged. Neither touches another user's settings row or any bet.
C26_SettingsUpdateFrame ==
    [][/\ Disconnect =>
             /\ settings'.appKey = settings.appKey
             /\ settings'.certificate = settings.certificate
             /\ settings'.privateKey = settings.privateKey
             /\ BetfairStatus'.hasCertificate = BetfairStatus.hasCertificate
             /\ BetfairStatus'.hasAppKey = BetfairStatus.hasAppKey
             /\ otherSettings' = otherSettings /\ bets' = bets
       /\ \A key \in {"", "key"} :
             UploadCertificate("appkey", "cert", key) =>
                /\ settings'.sessionToken = settings.sessionToken
                /\ settings'.sessionExpiry = settings.sessionExpiry
                /\ otherSettings' = otherSettings /\ bets' = bets]_vars

\* credentials and a session stored, a bet in the history and another user's row with a
\* session of its own: the state a disconnect or an upload acts on
C26_Witness ==
    /\ hasCertificate /\ hasAppKey /\ BetfairStatus.connected
    /\ Len(bets) > 0
    /\ Truthy(otherSettings.sessionToken) /\ otherSettings.appKey # settings.appKey

(* C27 *)
\* the session token, the certificate and the private key that are stored
StoredSecrets ==
    {settings.sessionToken, settings.certificate, settings.privateKey} \ {Null}

\* every text a response carries: the settings answer, the status answer, the answers
\* of connect for every password and login outcome, the latest place-bets answer and the
\* bets of the history endpoints
ResponseTexts ==
    {BetfairSettingsResponse.appKey, BetfairSettingsResponse.sessionToken}
        \cup {Some(BetfairStatus.message), Some(response.message)}
        \cup {Some(ConnectResponse("user", password, login).message) :
                 password \in Passwords, login \in LoginStatuses}
        \cup UNION {{Some(x) : x \in BetTexts(bets[b])} : b \in 1..Len(bets)}

\* C27: no response of any endpoint contains the stored session token, certificate or
\* private key: the settings endpoint gives the session token as '***' or null and the
\* certificate and key as the boolean hasCertificate only, and the status, connect, bets
\* and place-bets responses and their error messages carry none of the three values.
C27_NoSecretInResponses ==
    /\ \A secret \in StoredSecrets : secret \notin ResponseTexts
    /\ BetfairSettingsResponse.sessionToken \in {Some("***"), Null}
    /\ BetfairSettingsResponse.hasCertificate \in BOOLEAN

\* the three secrets stored, the token masked in the settings answer, and a bet recorded
\* by a place-bets request that was answered
C27_Witness ==
    /\ Cardinality(StoredSecrets) = 3
    /\ BetfairSettingsResponse.sessionToken = Some("***")
    /\ Len(bets) > 0 /\ response.status = 200

(* C10 *)
\* C10: a total amount that is not a positive finite number is rejected: the
\* calculator produces no stakes for it, and placing sends no order and records no bet.
C10_InvalidAmountRejected ==
    [][~AmountValid => (calculatedSelections = <<>> /\ PlacementRefused)]_vars


====
